---------------------------- MODULE Spec2Model ----------------------------
(***************************************************************************)
(* Sparse mixture-of-experts routing of MSPT: the top-K gate, the sparse   *)
(* dispatcher and the log-space combiner, in both architecture variants    *)
(* (models/MSPT.py and models/MSPT_0525.py).                               *)
(*                                                                         *)
(* Numbers.  Tensors hold reals.  A value in log space (an expert output,  *)
(* a score) is an integer multiple of ln 2, written as that integer, so    *)
(* exp(x) is the exact rational 2^x.  A value in exp space (a gate weight, *)
(* a weighted sum) is the exact rational (n/d) * 2^e, kept normalised with *)
(* n and d odd and coprime.  log of such a value is e + log2(n/d), kept as *)
(* [int |-> e, n |-> n, d |-> d]; it is the integer e exactly when         *)
(* n = d = 1.  Floating-point rounding, underflow and overflow are outside *)
(* this arithmetic.                                                        *)
(*                                                                         *)
(* A sample row [L, D] is one scalar: every operation of dispatch and      *)
(* combine acts on a whole row (gather, split, index_add) or elementwise   *)
(* with the row's gate weight (exp, einsum, log).  A row carries the field *)
(* src, the batch position it was read from; the code never reads src, it  *)
(* only lets the properties name the sample a row belongs to.              *)
(*                                                                         *)
(* Ties.  torch.sort (called without stable = True) and torch.topk do not  *)
(* promise an order for equal keys.  Each is a deterministic routine, so   *)
(* the order is a fixed function of the build: sortRank and topkRank are   *)
(* chosen once, arbitrarily, and never change.                             *)
(***************************************************************************)
EXTENDS Integers, Sequences, FiniteSets, TLC

VARIABLES
    variant,          \* "MSPT" (models/MSPT.py) or "MSPT_0525" (models/MSPT_0525.py)
    seq_len,          \* configs.seq_len
    patch_sizes,      \* candidate periods computed at construction
    k,                \* self.k / self.top_k
    training,         \* nn.Module.training
    sortRank,         \* order torch.sort leaves equal keys in (stable = FALSE)
    topkRank,         \* order torch.topk prefers equal scores in
    pc,               \* position of the current call
    scores,           \* clean logits of the current gate call
    logits,           \* logits handed to topk
    gates,            \* gate matrix [batch][expert]
    disp,             \* index bookkeeping of the dispatcher
    inp,              \* input batch of dispatch
    encoders_input,   \* per-expert sub-batches
    encoders_output,  \* per-expert outputs
    output,           \* combined output
    ref,              \* an earlier inference gate call: its scores and its gates
    amplitude_list,   \* channel-averaged magnitude of each nonzero frequency bin
    groups_period,    \* the distinct integer periods found at forward time
    groups_amplitude, \* the amplitudes summed per period
    pretrain,         \* configs.pretrain
    pred_len,         \* configs.pred_len
    enc_out,          \* Model.forward: shape of the encoder output(s)
    dec_out,          \* Model.forward: shape of dec_out, or Unbound
    patch_size,       \* Encoder.patch_size
    num_patchs,       \* patches the expert's positional embedding was built for
    x_patch,          \* Encoder.forward: shape of x
    xb,               \* random_masking: the tokens of one sample
    mask_ratio,       \* random_masking: mask_ratio, in MaskDen-ths
    masked,           \* what random_masking returned
    x_                \* PretrainHead.forward: the un-shuffled sequence

vars == <<variant, seq_len, patch_sizes, k, training, sortRank, topkRank, pc,
          scores, logits, gates, disp, inp, encoders_input, encoders_output,
          output, ref, amplitude_list, groups_period, groups_amplitude,
          pretrain, pred_len, enc_out, dec_out, patch_size, num_patchs, x_patch,
          xb, mask_ratio, masked, x_>>

config == <<variant, seq_len, patch_sizes, k, sortRank, topkRank>>
spectral == <<amplitude_list, groups_period, groups_amplitude>>
model == <<pretrain, pred_len, enc_out, dec_out>>
encoder == <<patch_size, num_patchs, x_patch>>
masking == <<xb, mask_ratio, masked, x_>>
\* what the routing of a batch neither reads nor writes
others == <<model, encoder, masking>>
locals == <<scores, logits, gates, disp, inp, encoders_input, encoders_output, output,
            spectral>>

----------------------------------------------------------------------------
(* Bounds *)

MaxBatch == 2
MaxSeqLen == 6
MaxTopK == 3
MaxVal == 1
MaxScore == 1
MaxNoise == 1

Variants == {"MSPT", "MSPT_0525"}
XVals == 0..MaxVal
ScoreVals == 0..MaxScore
NoiseVals == (0 - MaxNoise)..MaxNoise

----------------------------------------------------------------------------
(* Exact arithmetic *)

RECURSIVE GCD(_, _)
GCD(a, b) == IF b = 0 THEN a ELSE GCD(b, a % b)

RECURSIVE Pow2(_)
Pow2(j) == IF j <= 0 THEN 1 ELSE 2 * Pow2(j - 1)

RECURSIVE TwoAdic(_)
TwoAdic(m) == IF m % 2 = 0 THEN 1 + TwoAdic(m \div 2) ELSE 0

Zero == [n |-> 0, d |-> 1, e |-> 0]

\* (n/d) * 2^e, normalised; n >= 0, d > 0
Norm(n, d, e) ==
    IF n = 0 THEN Zero
    ELSE LET g  == GCD(n, d)
             n1 == n \div g
             d1 == d \div g
             a  == TwoAdic(n1)
             b  == TwoAdic(d1)
         IN [n |-> n1 \div Pow2(a), d |-> d1 \div Pow2(b), e |-> e + a - b]

Rat(n, d) == Norm(n, d, 0)

RMul(x, y) == Norm(x.n * y.n, x.d * y.d, x.e + y.e)

RAdd(x, y) ==
    IF x.n = 0 THEN y
    ELSE IF y.n = 0 THEN x
    ELSE LET m == IF x.e < y.e THEN x.e ELSE y.e
         IN Norm(x.n * Pow2(x.e - m) * y.d + y.n * Pow2(y.e - m) * x.d, x.d * y.d, m)

\* x <= y
RLeq(x, y) ==
    LET m == IF x.e < y.e THEN x.e ELSE y.e
    IN x.n * Pow2(x.e - m) * y.d <= y.n * Pow2(y.e - m) * x.d

RECURSIVE RSum(_)
RSum(s) == IF s = <<>> THEN Zero ELSE RAdd(Head(s), RSum(Tail(s)))

\* torch.exp on a log-space integer
Exp(x) == [n |-> 1, d |-> 1, e |-> x]

\* torch.log on a positive exp-space value
Log(r) == [int |-> r.e, n |-> r.n, d |-> r.d]

\* the real number x as a log-space value
LogSpace(x) == [int |-> x, n |-> 1, d |-> 1]

----------------------------------------------------------------------------
(* Sequence helpers *)

Range(s) == {s[i] : i \in DOMAIN s}

RECURSIVE SeqSum(_)
SeqSum(s) == IF s = <<>> THEN 0 ELSE Head(s) + SeqSum(Tail(s))

RECURSIVE Flatten(_)
Flatten(ss) == IF ss = <<>> THEN <<>> ELSE Head(ss) \o Flatten(Tail(ss))

\* the members of S in ascending order of key (key is injective on S)
RECURSIVE SortBy(_, _)
SortBy(S, key) ==
    IF S = {} THEN <<>>
    ELSE LET m == CHOOSE x \in S : \A y \in S : key[x] <= key[y]
         IN <<m>> \o SortBy(S \ {m}, key)

Permutations1(n) == {f \in [1..n -> 1..n] : \A i, j \in 1..n : f[i] = f[j] => i = j}

Identity(n) == [i \in 1..n |-> i]


----------------------------------------------------------------------------
(* Construction: candidate periods *)

\* float32 (torch's default dtype): a positive value is m * 2^e with a 24-bit
\* significand, 2^23 <= m < 2^24; every operation rounds to nearest, ties to even
F32Hidden == Pow2(23)

\* the significand q with its discarded part (above, at or below half a unit
\* in the last place: up, tie, down), rounded
F32Round(q, e, up, tie) ==
    LET m == IF up \/ (tie /\ q % 2 = 1) THEN q + 1 ELSE q
    IN IF m = 2 * F32Hidden THEN [m |-> F32Hidden, e |-> e + 1] ELSE [m |-> m, e |-> e]

\* long division q + r / b, doubled until q has 25 bits; s counts the doublings
RECURSIVE F32Quotient(_, _, _, _)
F32Quotient(q, r, b, s) ==
    IF q >= 2 * F32Hidden THEN [q |-> q, r |-> r, s |-> s]
    ELSE F32Quotient(2 * q + (IF 2 * r >= b THEN 1 ELSE 0),
                     IF 2 * r >= b THEN 2 * r - b ELSE 2 * r, b, s + 1)

\* a / b rounded to float32, for integers 0 < a <= b < 2^24
F32Div(a, b) ==
    LET d == F32Quotient(a \div b, a % b, b, 0)
    IN F32Round(d.q \div 2, 1 - d.s, d.q % 2 = 1 /\ d.r # 0, d.q % 2 = 1 /\ d.r = 0)

\* the number of low bits to drop from n to leave 24
RECURSIVE F32Excess(_)
F32Excess(n) == IF n < 2 * F32Hidden THEN 0 ELSE 1 + F32Excess(n \div 2)

\* i * x rounded to float32, for an integer 1 <= i < 128
F32MulInt(i, x) ==
    LET n == i * x.m
        t == F32Excess(n)
        rem == n % Pow2(t)
    IN IF t = 0 THEN [m |-> n, e |-> x.e]
       ELSE F32Round(n \div Pow2(t), x.e + t, 2 * rem > Pow2(t), 2 * rem = Pow2(t))

\* 1 / x rounded to float32
F32Reciprocal(x) ==
    LET q == F32Div(F32Hidden, x.m) IN [m |-> q.m, e |-> q.e - 23 - x.e]

\* x.floor() and x.ceil() as integers, for 1 <= x < 2^24
F32Floor(x) == x.m \div Pow2(0 - x.e)
F32Ceil(x) == F32Floor(x) + (IF x.m % Pow2(0 - x.e) = 0 THEN 0 ELSE 1)

\* torch.fft.rfftfreq(L)[i] = arange(L // 2 + 1)[i] * (1.0 / L): the double 1 / L
\* becomes a float32 scalar, the product is rounded to float32
rfftfreq(L, i) == F32MulInt(i, F32Div(1, L))

\* (1 / rfftfreq(L)[1:])[i] rounded to an integer for the bins i = 1 .. L // 2:
\* MSPT.py rounds up, MSPT_0525.py rounds down
PeriodOfBin(v, L, i) ==
    LET peroid == F32Reciprocal(rfftfreq(L, i))
    IN IF v = "MSPT" THEN F32Ceil(peroid) ELSE F32Floor(peroid)

\* unique() returns the distinct values in ascending order
get_patch_sizes(v, L) ==
    LET S == {PeriodOfBin(v, L, i) : i \in 1..(L \div 2)}
    IN SortBy(S, [p \in S |-> p])

NumExperts == Len(patch_sizes)

----------------------------------------------------------------------------
(* SparseDispatcher / dispatcher() / CrossScalePeriodicFeatureAggregator *)

BatchOf(g) == Len(g)

\* torch.nonzero(gates): the <<sample, expert>> pairs of the nonzero entries,
\* in row-major order
RECURSIVE NonzeroRow(_, _, _)
NonzeroRow(row, b, e) ==
    IF e > Len(row) THEN <<>>
    ELSE (IF row[e].n # 0 THEN <<(<<b, e>>)>> ELSE <<>>) \o NonzeroRow(row, b, e + 1)

RECURSIVE NonzeroFrom(_, _)
NonzeroFrom(g, b) ==
    IF b > Len(g) THEN <<>> ELSE NonzeroRow(g[b], b, 1) \o NonzeroFrom(g, b + 1)

Nonzero(g) == NonzeroFrom(g, 1)

\* the key torch.sort orders position i of the expert column by: the expert
\* index, and among equal expert indices the order the sort routine leaves
\* them in (rank[sample]; the identity rank is a stable sort)
SortKey(nz, rank, i) == nz[i][2] * (MaxBatch + 1) + rank[nz[i][1]]

\* index_sorted_experts[:, 1] of torch.nonzero(gates).sort(0)
IndexSortedExperts(nz, rank) ==
    SortBy(DOMAIN nz, [i \in DOMAIN nz |-> SortKey(nz, rank, i)])

\* sorted_experts[:, 1]
ExpertIndex(g, rank) ==
    LET nz == Nonzero(g)
        ix == IndexSortedExperts(nz, rank)
    IN [i \in DOMAIN ix |-> nz[ix[i]][2]]

\* faulty variant: the batch column taken in the order of torch.nonzero, not permuted
\* by the expert sort
BatchIndexUnsorted(g, rank) ==
    LET nz == Nonzero(g) IN [i \in DOMAIN nz |-> nz[i][1]]

\* torch.nonzero(gates)[index_sorted_experts[:, 1], 0]
BatchIndex(g, rank) ==
    LET nz == Nonzero(g)
        ix == IndexSortedExperts(nz, rank)
    IN [i \in DOMAIN ix |-> nz[ix[i]][1]]

\* faulty variant: the positive entries counted along the wrong axis, (gates > 0).sum(1)
PartSizesByRow(g, N) ==
    [e \in 1..N |-> IF e \in DOMAIN g
                    THEN Cardinality({c \in DOMAIN g[e] : g[e][c].n > 0})
                    ELSE 0]

\* (gates > 0).sum(0).tolist()
PartSizes(g, N) ==
    [e \in 1..N |-> Cardinality({b \in DOMAIN g : g[b][e].n > 0})]

\* torch.gather(gates[_batch_index], 1, _expert_index)
NonzeroGates(g, bix, eix) == [i \in DOMAIN bix |-> g[bix[i]][eix[i]]]

\* torch.split(t, sizes, dim=0) raises unless the sizes sum to the length
SplitOK(t, sizes) == SeqSum(sizes) = Len(t)

RECURSIVE Split(_, _)
Split(t, sizes) ==
    IF sizes = <<>> THEN <<>>
    ELSE <<SubSeq(t, 1, Head(sizes))>>
         \o Split(SubSeq(t, Head(sizes) + 1, Len(t)), Tail(sizes))

\* inp[_batch_index]
Gather(x, bix) == [i \in DOMAIN bix |-> x[bix[i]]]

\* faulty variant: np.finfo(float).tiny = 2^-1022 in place of np.finfo(float).eps
TinyValue == [n |-> 1, d |-> 1, e |-> -1022]

\* np.finfo(float).eps = 2^-52
EpsExponent == -52
FloorValue == [n |-> 1, d |-> 1, e |-> EpsExponent]

\* faulty variant: the stitched rows left unweighted (multiply_by_gates dropped)
Unweighted(stitched, ng) == stitched

\* torch.einsum("ikh,ik -> ikh", stitched, _nonzero_gates)
Weighted(stitched, ng) == [i \in DOMAIN stitched |-> RMul(stitched[i], ng[i])]

\* zeros.index_add(0, _batch_index, stitched)
IndexAdd(B, bix, stitched) ==
    [b \in 1..B |->
        LET at == SortBy({i \in DOMAIN bix : bix[i] = b}, [i \in DOMAIN bix |-> i])
        IN RSum([j \in DOMAIN at |-> stitched[at[j]]])]

\* faulty variant: the zero cells left as they are
NotFloored(c) == c

\* combined[combined == 0] = np.finfo(float).eps
Floored(c) == [b \in DOMAIN c |-> IF c[b].n = 0 THEN FloorValue ELSE c[b]]

\* torch.cat(expert_out, 0).exp()
Stitched(expert_out) ==
    LET rows == Flatten(expert_out) IN [i \in DOMAIN rows |-> Exp(rows[i].val)]

\* index_add raises unless there is one index per stitched row
CombineOK(bix, expert_out) == Len(Flatten(expert_out)) = Len(bix)

\* the body shared by SparseDispatcher.combine and the aggregator's forward
CombineRows(g, bix, ng, expert_out) ==
    LET combined == IndexAdd(BatchOf(g), bix, Weighted(Stitched(expert_out), ng))
        floored  == Floored(combined)
    IN [b \in DOMAIN floored |-> Log(floored[b])]

NoDisp == [expert_index |-> <<>>, batch_index |-> <<>>,
           part_sizes |-> <<>>, nonzero_gates |-> <<>>]

\* SparseDispatcher.__init__
SparseDispatcher(N, g, rank) ==
    LET bix == BatchIndex(g, rank)
        eix == ExpertIndex(g, rank)
    IN [expert_index |-> eix, batch_index |-> bix,
        part_sizes |-> PartSizes(g, N), nonzero_gates |-> NonzeroGates(g, bix, eix)]

\* faulty variant: the aggregator taking the sample column as torch.nonzero
\* lists it, without the permutation of the expert sort
AggregatorIndexUnsorted(g, rank) ==
    LET bix == BatchIndexUnsorted(g, rank)
        eix == ExpertIndex(g, rank)
    IN [batch_index |-> bix, nonzero_gates |-> NonzeroGates(g, bix, eix)]

\* CrossScalePeriodicFeatureAggregator.forward: the index bookkeeping computed
\* again from the gates (MSPT_0525.py 240-245)
AggregatorIndex(g, rank) ==
    LET bix == BatchIndex(g, rank)
        eix == ExpertIndex(g, rank)
    IN [batch_index |-> bix, nonzero_gates |-> NonzeroGates(g, bix, eix)]

----------------------------------------------------------------------------
(* Inputs *)

GateDen == 2
GateVals == {Rat(j, GateDen) : j \in 0..GateDen}

GateMats(B, N) == [1..B -> [1..N -> GateVals]]

Inputs(B) == {[b \in 1..B |-> [src |-> b, val |-> f[b]]] : f \in [1..B -> XVals]}

\* the outputs a bank of experts can return for the sub-batches ins: one row
\* per input row, any value
ExpertOutputs(ins) ==
    LET rows == Flatten(ins)
        sizes == [e \in DOMAIN ins |-> Len(ins[e])]
    IN {Split([i \in DOMAIN rows |-> [src |-> rows[i].src, val |-> f[i]]], sizes) :
            f \in [DOMAIN rows -> XVals]}

----------------------------------------------------------------------------
(* Calls *)

ClearLocals ==
    /\ scores' = <<>>
    /\ logits' = <<>>
    /\ gates' = <<>>
    /\ disp' = NoDisp
    /\ inp' = <<>>
    /\ encoders_input' = <<>>
    /\ encoders_output' = <<>>
    /\ output' = <<>>
    /\ amplitude_list' = <<>>
    /\ groups_period' = <<>>
    /\ groups_amplitude' = <<>>

\* a caller hands a gate matrix and a batch to the dispatcher
GivenGates ==
    /\ pc = "idle"
    /\ NumExperts >= 1
    /\ \E B \in 1..MaxBatch :
         \E g \in GateMats(B, NumExperts), x \in Inputs(B) :
            /\ gates' = g
            /\ inp' = x
    /\ pc' = "gated"
    /\ UNCHANGED <<config, others, spectral, training, ref, scores, logits, disp,
                   encoders_input, encoders_output, output>>

\* MSPT.py: dispatcher = SparseDispatcher(self.num_patch_sizes, gates)
NewSparseDispatcher ==
    /\ pc = "gated"
    /\ variant = "MSPT"
    /\ disp' = SparseDispatcher(NumExperts, gates, sortRank)
    /\ pc' = "constructed"
    /\ UNCHANGED <<config, others, spectral, training, ref, scores, logits, gates, inp,
                   encoders_input, encoders_output, output>>

\* MSPT.py: SparseDispatcher.dispatch
Dispatch ==
    /\ pc = "constructed"
    /\ LET inp_exp == Gather(inp, disp.batch_index)
       IN IF SplitOK(inp_exp, disp.part_sizes)
          THEN /\ encoders_input' = Split(inp_exp, disp.part_sizes)
               /\ pc' = "dispatched"
          ELSE /\ encoders_input' = <<>>
               /\ pc' = "raised"
    /\ UNCHANGED <<config, others, spectral, training, ref, scores, logits, gates, disp, inp,
                   encoders_output, output>>

\* MSPT_0525.py: MultiScalePeriodicPatchEmbedding.dispatcher
Dispatcher0525 ==
    /\ pc = "gated"
    /\ variant = "MSPT_0525"
    /\ LET xs == Gather(inp, BatchIndex(gates, sortRank))
           sizes == PartSizes(gates, NumExperts)
       IN IF SplitOK(xs, sizes)
          THEN /\ encoders_input' = Split(xs, sizes)
               /\ pc' = "dispatched"
          ELSE /\ encoders_input' = <<>>
               /\ pc' = "raised"
    /\ UNCHANGED <<config, others, spectral, training, ref, scores, logits, gates, disp, inp,
                   encoders_output, output>>

\* the expert bank: self.encoders[i](encoders_input[i])
Encode ==
    /\ pc = "dispatched"
    /\ encoders_output' \in ExpertOutputs(encoders_input)
    /\ pc' = "encoded"
    /\ UNCHANGED <<config, others, spectral, training, ref, scores, logits, gates, disp, inp,
                   encoders_input, output>>

\* MSPT.py: SparseDispatcher.combine
Combine ==
    /\ pc = "encoded"
    /\ variant = "MSPT"
    /\ IF CombineOK(disp.batch_index, encoders_output)
       THEN /\ output' = CombineRows(gates, disp.batch_index, disp.nonzero_gates,
                                     encoders_output)
            /\ pc' = "combined"
       ELSE /\ output' = <<>>
            /\ pc' = "raised"
    /\ UNCHANGED <<config, others, spectral, training, ref, scores, logits, gates, disp, inp,
                   encoders_input, encoders_output>>

\* MSPT_0525.py: CrossScalePeriodicFeatureAggregator.forward
Aggregate ==
    /\ pc = "encoded"
    /\ variant = "MSPT_0525"
    /\ LET ix == AggregatorIndex(gates, sortRank)
           bix == ix.batch_index
       IN IF CombineOK(bix, encoders_output)
          THEN /\ output' = CombineRows(gates, bix, ix.nonzero_gates, encoders_output)
               /\ pc' = "combined"
          ELSE /\ output' = <<>>
               /\ pc' = "raised"
    /\ UNCHANGED <<config, others, spectral, training, ref, scores, logits, gates, disp, inp,
                   encoders_input, encoders_output>>

\* the call returns (or unwinds): its locals are dropped
Return ==
    /\ pc \in {"combined", "raised"}
    /\ pc' = "idle"
    /\ ClearLocals
    /\ UNCHANGED <<config, others, training, ref>>

----------------------------------------------------------------------------
(* Specification of the dispatcher and the combiner on given gate matrices *)

NoRef == [scores |-> <<>>, gates |-> <<>>]

\* a name with no value yet
Unbound == [unbound |-> TRUE]

\* Model.forward is not running; the routing specifications fix its configuration
NoModelCall == enc_out = Unbound /\ dec_out = Unbound
NoModel == pretrain = FALSE /\ pred_len = 1 /\ NoModelCall

\* no expert is under study on its own
NoEncoder == patch_size = 0 /\ num_patchs = 0 /\ x_patch = Unbound

\* no masking call is under study
NoMasking == xb = <<>> /\ mask_ratio = 0 /\ masked = Unbound /\ x_ = <<>>

InitOthers == NoModel /\ NoEncoder /\ NoMasking

\* no call is running
InitLocals ==
    /\ pc = "idle"
    /\ scores = <<>>
    /\ logits = <<>>
    /\ gates = <<>>
    /\ disp = NoDisp
    /\ inp = <<>>
    /\ encoders_input = <<>>
    /\ encoders_output = <<>>
    /\ output = <<>>
    /\ ref = NoRef
    /\ amplitude_list = <<>>
    /\ groups_period = <<>>
    /\ groups_amplitude = <<>>

\* EncoderStack.__init__ / MultiScalePeriodicPatchEmbedding.__init__
Construct(v, L, top_k) ==
    /\ variant = v
    /\ seq_len = L
    /\ patch_sizes = get_patch_sizes(v, L)
    /\ k = top_k

InitDispatch ==
    /\ \E v \in Variants, L \in 2..MaxSeqLen : Construct(v, L, 1)
    /\ training = FALSE
    /\ sortRank \in Permutations1(MaxBatch)
    /\ topkRank = Identity(Len(patch_sizes))
    /\ InitLocals
    /\ InitOthers

NextDispatch ==
    \/ GivenGates
    \/ NewSparseDispatcher
    \/ Dispatch
    \/ Dispatcher0525
    \/ Encode
    \/ Combine
    \/ Aggregate
    \/ Return

SpecDispatch == InitDispatch /\ [][NextDispatch]_vars


----------------------------------------------------------------------------
(* Properties of dispatch and combine *)

Dispatched == pc \in {"dispatched", "encoded", "combined"}

\* the experts sample b is routed to
Routed(b) == {e \in DOMAIN gates[b] : gates[b][e].n # 0}

IsZeroRow(b) == Routed(b) = {}

\* the samples whose rows make up sub-batch e, in sub-batch order
SubBatchSrc(e) == [j \in DOMAIN encoders_input[e] |-> encoders_input[e][j].src]

\* the weighted terms gate[b,e] * exp(out_e[b]) over the rows the experts
\* produced for sample b
TermsOf(b) ==
    LET rows(e) == {j \in DOMAIN encoders_output[e] : encoders_output[e][j].src = b}
        term(e) == RSum([j \in 1..Len(encoders_output[e]) |->
                            IF j \in rows(e)
                            THEN RMul(gates[b][e], Exp(encoders_output[e][j].val))
                            ELSE Zero])
    IN RSum([e \in 1..Len(encoders_output) |-> term(e)])

IdentityExperts == encoders_output = encoders_input

OneHotOne == \A b \in DOMAIN gates :
                /\ Cardinality(Routed(b)) = 1
                /\ \A e \in Routed(b) : gates[b][e] = Rat(1, 1)

\* C1: with identity experts and a gate matrix holding exactly one entry 1 per
\* sample, the combined output is the input, every row at its batch position.
C1_RoundTrip ==
    (pc = "combined" /\ OneHotOne /\ IdentityExperts)
        => /\ Len(output) = Len(inp)
           /\ \A b \in DOMAIN inp : output[b] = LogSpace(inp[b].val)

C1_Witness ==
    /\ pc = "combined" /\ OneHotOne /\ IdentityExperts
    /\ Len(gates) = 2
    /\ Routed(1) = Routed(2)
    /\ inp[1].val # inp[2].val
    /\ sortRank[1] > sortRank[2]

\* C2: the combined row of a sample routed to a nonempty set S of experts is
\* log(sum over e in S of gate[b,e] * exp(out_e[b])).
C2_Accumulation ==
    pc = "combined"
        => \A b \in DOMAIN gates :
              ~IsZeroRow(b) => output[b] = Log(TermsOf(b))

C2_Witness ==
    /\ pc = "combined"
    /\ \E b \in DOMAIN gates : \E e1, e2 \in DOMAIN gates[b] :
          /\ e1 # e2
          /\ {e1, e2} \subseteq Routed(b)
          /\ gates[b][e1] # gates[b][e2]
          /\ \E j1 \in DOMAIN encoders_output[e1], j2 \in DOMAIN encoders_output[e2] :
                /\ encoders_output[e1][j1].src = b
                /\ encoders_output[e2][j2].src = b
                /\ encoders_output[e1][j1].val # encoders_output[e2][j2].val

\* C3: dispatch returns one sub-batch per expert; sub-batch e holds, each once,
\* exactly the samples whose gate entry for e is nonzero, so an expert with no
\* routed sample gets an empty sub-batch; dispatch does not raise.
C3_Partition ==
    /\ pc # "raised"
    /\ Dispatched
        => /\ Len(encoders_input) = NumExperts
           /\ \A e \in 1..NumExperts :
                 LET S == {b \in DOMAIN gates : gates[b][e].n # 0}
                 IN /\ Range(SubBatchSrc(e)) = S
                    /\ Len(encoders_input[e]) = Cardinality(S)
                    /\ \A j \in DOMAIN encoders_input[e] :
                          encoders_input[e][j] = inp[encoders_input[e][j].src]

C3_Witness ==
    /\ Dispatched
    /\ NumExperts = 3
    /\ Len(gates) = 2
    /\ Len(encoders_input[1]) = 2
    /\ Len(encoders_input[2]) = 0
    /\ Len(encoders_input[3]) = 1

\* the samples with a nonzero gate row, in batch order
KeptSamples == SortBy({b \in DOMAIN gates : ~IsZeroRow(b)}, [b \in DOMAIN gates |-> b])

\* combine run on the batch without its all-zero rows
OutputWithoutZeroRows ==
    LET keep == KeptSamples
        g2   == [j \in DOMAIN keep |-> gates[keep[j]]]
        r2   == [j \in DOMAIN keep |-> sortRank[keep[j]]]
        bix  == BatchIndex(g2, r2)
    IN CombineRows(g2, bix, NonzeroGates(g2, bix, ExpertIndex(g2, r2)), encoders_output)

\* C6: with all-zero gate rows present dispatch and combine do not raise, each
\* all-zero sample's output is log(floor), a finite value, and the other rows
\* are what combine returns for the batch without the all-zero rows.
C6_EmptyRouting ==
    /\ pc # "raised"
    /\ pc = "combined"
        => /\ Len(output) = Len(gates)
           /\ \A b \in DOMAIN gates :
                 IsZeroRow(b) => (output[b] = Log(FloorValue) /\ output[b].n > 0)
           /\ LET keep == KeptSamples
                  out2 == OutputWithoutZeroRows
              IN \A j \in DOMAIN keep : output[keep[j]] = out2[j]

C6_Witness ==
    /\ pc = "combined"
    /\ Len(gates) = 2
    /\ IsZeroRow(1)
    /\ Cardinality(Routed(2)) = 2

C6_WitnessAllZero ==
    /\ pc = "combined"
    /\ Len(gates) = 2
    /\ IsZeroRow(1)
    /\ IsZeroRow(2)

\* C7 as stated: the floor is the smallest positive normal double, 2^-1022
\* (2.2250738585072014e-308), so an all-zero gate row yields its log.
C7_FloorIsTiny ==
    pc = "combined"
        => \A b \in DOMAIN gates :
              IsZeroRow(b) => output[b] = [int |-> -1022, n |-> 1, d |-> 1]

\* C7 amended: the floor is np.finfo(float).eps, the double machine epsilon
\* 2^-52 (2.220446049250313e-16), so an all-zero gate row yields log(2^-52).
C7_FloorIsEps ==
    pc = "combined"
        => \A b \in DOMAIN gates :
              IsZeroRow(b) => output[b] = [int |-> -52, n |-> 1, d |-> 1]

C7_Witness ==
    /\ pc = "combined"
    /\ \E b \in DOMAIN gates : IsZeroRow(b) /\ output[b].int = -52

\* C9: the dispatched rows are ordered by expert and, within one expert's
\* sub-batch, by ascending original sample index.
C9_OrderedBySample ==
    Dispatched
        => \A e \in DOMAIN encoders_input :
              \A i, j \in DOMAIN encoders_input[e] :
                 i < j => encoders_input[e][i].src < encoders_input[e][j].src

\* C14: on the same gates, batch and expert outputs, dispatcher() and the
\* aggregator of MSPT_0525.py give the sub-batches and the combined output that
\* SparseDispatcher.dispatch and SparseDispatcher.combine give, and the
\* aggregator's recomputed sample index names, row by row, the sample of the
\* row the dispatcher emitted at that position.
C14_Equivalence ==
    (variant = "MSPT_0525" /\ Dispatched)
        => LET d == SparseDispatcher(NumExperts, gates, sortRank)
               rows == Flatten(encoders_input)
               agg == AggregatorIndex(gates, sortRank)
           IN /\ SplitOK(Gather(inp, d.batch_index), d.part_sizes)
              /\ encoders_input = Split(Gather(inp, d.batch_index), d.part_sizes)
              /\ Len(agg.batch_index) = Len(rows)
              /\ \A i \in DOMAIN rows : agg.batch_index[i] = rows[i].src
              /\ pc = "combined"
                    => /\ CombineOK(d.batch_index, encoders_output)
                       /\ output = CombineRows(gates, d.batch_index, d.nonzero_gates,
                                               encoders_output)

C14_Witness ==
    /\ variant = "MSPT_0525"
    /\ pc = "combined"
    /\ Len(gates) = 2
    /\ sortRank[1] > sortRank[2]
    /\ \E e \in Routed(1) \cap Routed(2) :
          /\ encoders_output[e][1].val # encoders_output[e][2].val
          /\ gates[1][e] # gates[2][e]
    /\ output[1] # output[2]

----------------------------------------------------------------------------
(* The top-K gate: EncoderStack.top_k_gating (MSPT.py) and the tail of       *)
(* MultiScalePeriodicPatchEmbedding.afno1d_for_peroid_weights (MSPT_0525.py) *)

MinOf(s) == CHOOSE x \in Range(s) : \A y \in Range(s) : x <= y

\* softmax over the selected logits: 2^v / sum of 2^w, each a multiple of ln 2
\* faulty variant of Softmax: the exponentials left unnormalised
ExpOnly(vals) == [i \in DOMAIN vals |-> Exp(vals[i])]

Softmax(vals) ==
    IF vals = <<>> THEN <<>>
    ELSE LET m == MinOf(vals)
             total == SeqSum([i \in DOMAIN vals |-> Pow2(vals[i] - m)])
         IN [i \in DOMAIN vals |-> Rat(Pow2(vals[i] - m), total)]

\* faulty variant of TopK: the kk smallest entries (largest = False)
TopKSmallest(row, kk, rank) ==
    LET N == Len(row)
        order == SortBy(1..N, [i \in 1..N |-> row[i] * (N + 1) + rank[i]])
    IN SubSeq(order, 1, kk)

\* torch.topk(row, kk): the indices of the kk largest entries, largest first;
\* equal entries in the order the routine prefers (rank)
TopK(row, kk, rank) ==
    LET N == Len(row)
        order == SortBy(1..N, [i \in 1..N |-> (0 - row[i]) * (N + 1) + rank[i]])
    IN SubSeq(order, 1, kk)

\* the number of entries topk is asked for: MSPT.py asks for k + 1 and keeps
\* the first k, MSPT_0525.py asks for k
TopKRequest(v, kk) == IF v = "MSPT" THEN kk + 1 ELSE kk

\* topk raises when asked for more entries than the row has
TopKOK(v, N, kk) == TopKRequest(v, kk) <= N

\* zeros.scatter(1, top_k_indices, top_k_gates)
Scatter(N, idx, w) ==
    [e \in 1..N |-> IF \E j \in DOMAIN idx : idx[j] = e
                    THEN w[CHOOSE j \in DOMAIN idx : idx[j] = e]
                    ELSE Zero]

\* faulty variant: dense routing, the softmax taken over all logits and no top-K
GateRowDense(v, row, kk, rank) == Softmax(row)

GateRow(v, row, kk, rank) ==
    LET top == TopK(row, TopKRequest(v, kk), rank)
        top_k_indices == SubSeq(top, 1, kk)
        top_k_logits == [j \in DOMAIN top_k_indices |-> row[top_k_indices[j]]]
    IN Scatter(Len(row), top_k_indices, Softmax(top_k_logits))

\* faulty variant of GateOf: the scores pooled over the batch before the
\* top-K, every sample given the gate of the pooled row
GateOfPooled(v, lg, kk, rank) ==
    LET pooled == [e \in DOMAIN lg[1] |-> SeqSum([b \in DOMAIN lg |-> lg[b][e]])]
    IN [b \in DOMAIN lg |-> GateRow(v, pooled, kk, rank)]

\* the gate, row by row (topk and softmax along dim 1)
GateOf(v, lg, kk, rank) == [b \in DOMAIN lg |-> GateRow(v, lg[b], kk, rank)]

\* faulty variant of Logits: the noise added in inference mode too
LogitsAlwaysNoisy(clean, noise, train) ==
    [b \in DOMAIN clean |-> [e \in DOMAIN clean[b] |-> clean[b][e] + noise[b][e]]]

\* noisy logits when training, the clean logits otherwise; noise is what
\* torch.randn_like(...) * noise_stddev would draw
Logits(clean, noise, train) ==
    IF train
    THEN [b \in DOMAIN clean |-> [e \in DOMAIN clean[b] |-> clean[b][e] + noise[b][e]]]
    ELSE clean

ScoreMats(B, N) == [1..B -> [1..N -> ScoreVals]]

\* noise matrices: at most one entry perturbed
NoiseMats(B, N) ==
    {[b \in 1..B |-> [e \in 1..N |-> IF b = bb /\ e = ee THEN z ELSE 0]] :
        bb \in 1..B, ee \in 1..N, z \in NoiseVals}

\* a gate call on a batch of scores
TopKGating ==
    /\ pc = "idle"
    /\ NumExperts >= 1
    /\ \E B \in 1..MaxBatch :
         \E s \in ScoreMats(B, NumExperts), noise \in NoiseMats(B, NumExperts) :
            LET lg == Logits(s, noise, training)
            IN /\ scores' = s
               /\ logits' = lg
               /\ IF TopKOK(variant, NumExperts, k)
                  THEN /\ gates' = GateOf(variant, lg, k, topkRank)
                       /\ pc' = "gated"
                  ELSE /\ gates' = <<>>
                       /\ pc' = "raised"
    /\ UNCHANGED <<config, others, spectral, training, ref, disp, inp, encoders_input,
                   encoders_output, output>>

\* the gate call returns its gates to the caller
ReturnGates ==
    /\ pc = "gated"
    /\ scores # <<>>
    /\ pc' = "idle"
    /\ ClearLocals
    /\ UNCHANGED <<config, others, training, ref>>

\* the same, the caller keeping the input and the gates of an inference call
RememberGates ==
    /\ pc = "gated"
    /\ scores # <<>>
    /\ ~training
    /\ ref' = [scores |-> scores, gates |-> gates]
    /\ pc' = "idle"
    /\ ClearLocals
    /\ UNCHANGED <<config, others, training>>

\* model.train() / model.eval() between calls
SetTraining ==
    /\ pc = "idle"
    /\ training' = ~training
    /\ UNCHANGED <<config, others, pc, ref, locals>>

InitGate ==
    /\ \E v \in Variants, L \in 2..MaxSeqLen, top_k \in 1..MaxTopK : Construct(v, L, top_k)
    /\ training \in BOOLEAN
    /\ sortRank = Identity(MaxBatch)
    /\ topkRank \in Permutations1(Len(patch_sizes))
    /\ InitLocals
    /\ InitOthers

NextGate ==
    \/ TopKGating
    \/ ReturnGates
    \/ SetTraining
    \/ Return

SpecGate == InitGate /\ [][NextGate]_vars

Reverse(n) == [i \in 1..n |-> n + 1 - i]

InitRepeat ==
    /\ \E v \in Variants, L \in 2..MaxSeqLen, top_k \in 1..MaxTopK : Construct(v, L, top_k)
    /\ training \in BOOLEAN
    /\ sortRank = Identity(MaxBatch)
    /\ topkRank \in {Identity(Len(patch_sizes)), Reverse(Len(patch_sizes))}
    /\ InitLocals
    /\ InitOthers

NextRepeat ==
    \/ TopKGating
    \/ ReturnGates
    \/ RememberGates
    \/ SetTraining
    \/ Return

SpecRepeat == InitRepeat /\ [][NextRepeat]_vars


----------------------------------------------------------------------------
(* Properties of the gate *)

Nonzeros(row) == {e \in DOMAIN row : row[e].n # 0}

RowSum(row) == RSum(row)

HasTie(row) == \E e1, e2 \in DOMAIN row : e1 # e2 /\ row[e1] = row[e2]

\* C4: every row of a gate matrix the top-K gate returns has exactly K nonzero
\* entries, each positive, the others zero, and they sum to 1, in training and
\* in inference mode.
C4_GateSparsity ==
    (pc = "gated" /\ scores # <<>>)
        => /\ Len(gates) = Len(scores)
           /\ \A b \in DOMAIN gates :
                 /\ Len(gates[b]) = NumExperts
                 /\ Cardinality(Nonzeros(gates[b])) = k
                 /\ \A e \in DOMAIN gates[b] : gates[b][e].n >= 0 /\ gates[b][e].d > 0
                 /\ RowSum(gates[b]) = Rat(1, 1)

C4_Witness ==
    /\ pc = "gated" /\ scores # <<>>
    /\ training
    /\ logits # scores
    /\ k = 2
    /\ NumExperts = 3
    /\ Len(gates) = 2
    /\ \E e \in 1..3 : gates[1][e] = Rat(2, 3)

\* C5: the nonzero positions of a gate row are the positions of the K largest
\* logits of the row, and a larger selected logit never gets a smaller weight.
C5_TopKSelection ==
    (pc = "gated" /\ scores # <<>>)
        => \A b \in DOMAIN gates :
              LET sel == Nonzeros(gates[b])
              IN /\ Cardinality(sel) = k
                 /\ \A e1 \in sel : \A e2 \in DOMAIN gates[b] \ sel :
                       logits[b][e1] >= logits[b][e2]
                 /\ \A e1, e2 \in sel :
                       logits[b][e1] >= logits[b][e2]
                          => RLeq(gates[b][e2], gates[b][e1])

C5_Witness ==
    /\ pc = "gated" /\ scores # <<>>
    /\ k = 2
    /\ NumExperts = 3
    /\ \E b \in DOMAIN gates :
          /\ gates[b][1].n = 0
          /\ logits[b][1] = logits[b][2]
          /\ logits[b][3] > logits[b][2]

\* C8: when the configured K exceeds the number of candidate periods,
\* construction clamps it, so a forward call does not raise and every gate
\* row has one nonzero entry per candidate, summing to 1.
C8_KClamped ==
    k > NumExperts
        => /\ pc # "raised"
           /\ (pc = "gated" /\ scores # <<>>)
                 => \A b \in DOMAIN gates :
                       /\ Cardinality(Nonzeros(gates[b])) = NumExperts
                       /\ RowSum(gates[b]) = Rat(1, 1)

\* C15: for every K from 1 to the number of candidates neither file raises, and
\* taking the top K + 1 and keeping the first K (MSPT.py) gives the gate
\* matrix that taking the top K gives (MSPT_0525.py).
C15_LookaheadEqualsDirect ==
    (pc \in {"gated", "raised"} /\ scores # <<>> /\ k <= NumExperts)
        => /\ TopKOK("MSPT", NumExperts, k)
           /\ TopKOK("MSPT_0525", NumExperts, k)
           /\ pc = "gated"
           /\ gates = GateOf("MSPT", logits, k, topkRank)
           /\ gates = GateOf("MSPT_0525", logits, k, topkRank)

\* C15 for K below the number of candidates, where topk prefers equal scores
\* in the same order whatever number it is asked for
C15_EqualBelowN ==
    (pc \in {"gated", "raised"} /\ scores # <<>> /\ k < NumExperts)
        => /\ pc = "gated"
           /\ gates = GateOf("MSPT", logits, k, topkRank)
           /\ gates = GateOf("MSPT_0525", logits, k, topkRank)

\* C10 (state part): in inference mode the logits are the clean scores, a gate
\* call on the input of an earlier inference call returns the gates it
\* returned then, and between calls no local of a call is left.
C10_State ==
    /\ (pc = "gated" /\ ~training) => logits = scores
    /\ (pc = "gated" /\ ~training /\ ref.scores = scores) => gates = ref.gates
    /\ pc = "idle" => /\ gates = <<>> /\ scores = <<>> /\ logits = <<>>
                      /\ disp = NoDisp /\ encoders_input = <<>>

\* C10: deterministic, stateless inference; no call changes the candidate
\* periods, K or anything else fixed at construction.
C10_Deterministic == []C10_State /\ [][config' = config]_vars

C10_Witness ==
    /\ pc = "gated" /\ ~training
    /\ ref.scores = scores
    /\ gates = ref.gates
    /\ NumExperts = 3 /\ k = 1
    /\ \E b \in DOMAIN scores : HasTie(scores[b])

----------------------------------------------------------------------------
(* The spectral period detector of MSPT.py: fft_for_peroid, groups_by_period *)
(* and the gate call of EncoderStack.forward                                 *)

MaxPeriodLen == 9
MaxSpectrumBatch == 1
MaxAmp == 1

AmpVals == 0..MaxAmp

\* the nonzero bins of rfft over L time steps: L // 2 + 1 bins, the first (DC)
\* dropped by [1:]
NumBins(L) == L \div 2

\* peroid_list = 1 / torch.fft.rfftfreq(x.shape[1], 1)[1:]
peroid_list(L) == [i \in 1..NumBins(L) |-> F32Reciprocal(rfftfreq(L, i))]

\* faulty variant: the estimates rounded down, as get_patch_sizes of MSPT_0525.py does
int_peroid_list_floor(pl) == [i \in DOMAIN pl |-> F32Floor(pl[i])]

\* int_peroid_list = peroid_list.ceil().int()
int_peroid_list(pl) == [i \in DOMAIN pl |-> F32Ceil(pl[i])]

\* torch.unique(t): the distinct values, ascending
Unique(t) == SortBy(Range(t), [p \in Range(t) |-> p])

\* return_inverse: for each element the position of its value in the unique list
InverseIndices(t, u) == [i \in DOMAIN t |-> CHOOSE g \in DOMAIN u : u[g] = t[i]]

\* faulty variant: scatter in place of scatter_add, a later bin overwriting an earlier one
ScatterLast(G, indices, row) ==
    [g \in 1..G |->
        LET at == {i \in DOMAIN indices : indices[i] = g}
        IN IF at = {} THEN 0 ELSE row[CHOOSE i \in at : \A j \in at : j <= i]]

\* zeros.scatter_add(1, indices, amplitude_list), one row
ScatterAdd(G, indices, row) ==
    [g \in 1..G |-> SeqSum([i \in DOMAIN indices |-> IF indices[i] = g THEN row[i] ELSE 0])]

\* groups_by_period
groups_by_period(pl, amps) ==
    LET ints == int_peroid_list(pl)
        gp == Unique(ints)
        indices == InverseIndices(ints, gp)
    IN [groups_period |-> gp,
        groups_amplitude |-> [b \in DOMAIN amps |-> ScatterAdd(Len(gp), indices, amps[b])]]

AmplitudeLists(B, L) == [1..B -> [1..NumBins(L) -> AmpVals]]

\* x [B, seq_len, D] arrives and fft_for_peroid runs on it:
\* abs(rfft(x)).mean(-1)[:, 1:] can be any non-negative amplitudes
FftOn(B) ==
    /\ pc = "idle"
    /\ variant = "MSPT"
    /\ inp' \in Inputs(B)
    /\ amplitude_list' \in AmplitudeLists(B, seq_len)
    /\ pc' = "spectrum"
    /\ UNCHANGED <<config, others, training, ref, scores, logits, gates, disp,
                   encoders_input, encoders_output, output, groups_period,
                   groups_amplitude>>

FftForPeroid == \E B \in 1..MaxSpectrumBatch : FftOn(B)

GroupsByPeriod ==
    /\ pc = "spectrum"
    /\ LET g == groups_by_period(peroid_list(seq_len), amplitude_list)
       IN /\ groups_period' = g.groups_period
          /\ groups_amplitude' = g.groups_amplitude
    /\ pc' = "grouped"
    /\ UNCHANGED <<config, others, training, ref, scores, logits, gates, disp, inp,
                   encoders_input, encoders_output, output, amplitude_list>>

\* groups_amplitude.softmax(dim=-1), then top_k_gating.  The softmax is strictly
\* increasing along a row and the gate reads its scores through topk and a
\* second softmax only, so the scores stay on the integer scale of the
\* amplitude sums: the selection is that of the code, the weights are those of
\* the gate on that scale.
GateForward ==
    /\ pc = "grouped"
    /\ \E noise \in NoiseMats(Len(groups_amplitude), Len(groups_period)) :
          LET lg == Logits(groups_amplitude, noise, training)
          IN /\ scores' = groups_amplitude
             /\ logits' = lg
             /\ IF TopKOK(variant, Len(groups_period), k)
                THEN /\ gates' = GateOf(variant, lg, k, topkRank)
                     /\ pc' = "gated"
                ELSE /\ gates' = <<>>
                     /\ pc' = "raised"
    /\ UNCHANGED <<config, others, spectral, training, ref, disp, inp, encoders_input,
                   encoders_output, output>>

InitPeriods ==
    /\ \E v \in Variants, L \in 2..MaxPeriodLen : Construct(v, L, 1)
    /\ training = FALSE
    /\ sortRank = Identity(MaxBatch)
    /\ topkRank = Identity(Len(patch_sizes))
    /\ InitLocals
    /\ InitOthers

NextPeriods ==
    \/ FftForPeroid
    \/ GroupsByPeriod
    \/ GateForward
    \/ ReturnGates
    \/ Return

SpecPeriods == InitPeriods /\ [][NextPeriods]_vars

----------------------------------------------------------------------------
(* The full forward pass: EncoderStack.forward (MSPT.py) and                 *)
(* MultiScalePeriodicPatchEmbedding.forward, the encoders and the head's     *)
(* aggregator (MSPT_0525.py)                                                 *)

\* MSPT.py: forward on a batch of up to MaxBatch samples
ForwardFft == \E B \in 1..MaxBatch : FftOn(B)

\* MSPT_0525.py: x [B, seq_len, C] arrives and afno1d_for_peroid_weights gates
\* it; the channel mean of abs(...) can be any non-negative weights, noise is
\* added in training mode
Msppe0525 ==
    /\ pc = "idle"
    /\ variant = "MSPT_0525"
    /\ \E B \in 1..MaxBatch :
         \E x \in Inputs(B), s \in ScoreMats(B, NumExperts), noise \in NoiseMats(B, NumExperts) :
            LET lg == Logits(s, noise, training)
            IN /\ inp' = x
               /\ scores' = s
               /\ logits' = lg
               /\ IF TopKOK(variant, NumExperts, k)
                  THEN /\ gates' = GateOf(variant, lg, k, topkRank)
                       /\ pc' = "gated"
                  ELSE /\ gates' = <<>>
                       /\ pc' = "raised"
    /\ UNCHANGED <<config, others, spectral, training, ref, disp, encoders_input,
                   encoders_output, output>>

MaxForwardTopK == 2

InitForward ==
    /\ \E v \in Variants, L \in 2..MaxSeqLen, top_k \in 1..MaxForwardTopK :
          Construct(v, L, top_k)
    /\ training \in BOOLEAN
    /\ sortRank \in Permutations1(MaxBatch)
    /\ topkRank = Identity(Len(patch_sizes))
    /\ InitLocals
    /\ InitOthers

NextForward ==
    \/ ForwardFft
    \/ GroupsByPeriod
    \/ GateForward
    \/ Msppe0525
    \/ NewSparseDispatcher
    \/ Dispatch
    \/ Dispatcher0525
    \/ Encode
    \/ Combine
    \/ Aggregate
    \/ Return

SpecForward == InitForward /\ [][NextForward]_vars

\* the sum index_add leaves in output row b before the floor and the log
Accumulated(b) == TermsOf(b)

\* C16: with 1 <= K < number of candidates the forward pass does not raise,
\* every sample is dispatched to exactly K distinct experts, B * K rows are
\* dispatched, the group sizes sum to the number of nonzero gate entries, and
\* every output row receives a contribution, so no row is floored.
C16_ExactlyKExperts ==
    (1 <= k /\ k < NumExperts)
        => /\ pc # "raised"
           /\ gates # <<>> => \A b \in DOMAIN gates : Cardinality(Routed(b)) = k
           /\ Dispatched
                 => /\ Len(Flatten(encoders_input)) = Len(gates) * k
                    /\ SeqSum(PartSizes(gates, NumExperts)) = Len(Nonzero(gates))
                    /\ \A e \in 1..NumExperts :
                          Len(encoders_input[e]) = PartSizes(gates, NumExperts)[e]
                    /\ \A b \in DOMAIN gates :
                          Cardinality({e \in 1..NumExperts :
                              \E j \in DOMAIN encoders_input[e] :
                                  encoders_input[e][j].src = b}) = k
           /\ pc = "combined"
                 => \A b \in DOMAIN gates :
                       /\ Accumulated(b) # Zero
                       /\ output[b] = Log(Accumulated(b))

C16_Witness ==
    /\ pc = "combined"
    /\ k = 2
    /\ NumExperts = 3
    /\ Len(gates) = 2
    /\ training
    /\ logits # scores
    /\ Routed(1) # Routed(2)
    /\ Len(Flatten(encoders_input)) = 4

----------------------------------------------------------------------------
(* Properties of the period detector *)

\* the forward pass of MSPT.py has grouped the spectrum of the current batch
Grouped == groups_period # <<>>

\* the bins whose period estimate, rounded as at construction, is p
BinsOf(p) == {i \in 1..NumBins(seq_len) : PeriodOfBin(variant, seq_len, i) = p}

\* the total amplitude of sample b over the bins in S
AmplitudeOver(b, S) ==
    SeqSum([i \in 1..NumBins(seq_len) |-> IF i \in S THEN amplitude_list[b][i] ELSE 0])

\* C11: the candidate periods are a function of the sequence length alone, the
\* periods grouped at forward time are the patch sizes of construction in the
\* same order, the score and gate matrices have one column per expert, and
\* column i carries the amplitude of the bins whose period is patch size i.
C11_CandidateCount ==
    /\ patch_sizes = get_patch_sizes(variant, seq_len)
    /\ Grouped
        => /\ groups_period = patch_sizes
           /\ \A b \in DOMAIN groups_amplitude :
                 /\ Len(groups_amplitude[b]) = NumExperts
                 /\ \A i \in 1..NumExperts :
                       groups_amplitude[b][i] = AmplitudeOver(b, BinsOf(patch_sizes[i]))
    /\ (Grouped /\ pc = "gated")
        => /\ Len(gates) = Len(amplitude_list)
           /\ \A b \in DOMAIN gates : Len(gates[b]) = NumExperts

C11_Witness ==
    /\ Grouped /\ pc = "gated"
    /\ seq_len = 9
    /\ patch_sizes = <<3, 5, 9>>
    /\ amplitude_list[1] = <<0, 0, 1, 1>>
    /\ gates[1][1].n # 0

\* the bins the forward pass rounds to period p
BinsRoundedTo(p) ==
    LET ints == int_peroid_list(peroid_list(seq_len))
    IN {i \in DOMAIN ints : ints[i] = p}

\* C12: for every sample the score of candidate period p is the sum of the
\* amplitudes of exactly the nonzero bins whose rounded period estimate is p;
\* every bin counts towards exactly one candidate, so the scores of a sample
\* total the amplitudes of all its nonzero bins, and no score is negative.
C12_PeriodGrouping ==
    Grouped
        => /\ Len(groups_amplitude) = Len(amplitude_list)
           /\ \A i \in 1..NumBins(seq_len) :
                 Cardinality({g \in DOMAIN groups_period : i \in BinsRoundedTo(groups_period[g])}) = 1
           /\ \A b \in DOMAIN amplitude_list :
                 /\ Len(groups_amplitude[b]) = Len(groups_period)
                 /\ \A g \in DOMAIN groups_period :
                       /\ groups_amplitude[b][g] = AmplitudeOver(b, BinsRoundedTo(groups_period[g]))
                       /\ groups_amplitude[b][g] >= 0
                 /\ SeqSum(groups_amplitude[b]) = SeqSum(amplitude_list[b])

C12_Witness ==
    /\ Grouped
    /\ seq_len = 9
    /\ groups_period = <<3, 5, 9>>
    /\ amplitude_list[1] = <<1, 0, 1, 1>>
    /\ groups_amplitude[1] = <<2, 0, 1>>

\* C18: the candidate periods are the rounded estimates of the nonzero bins
\* 1..floor(L/2) and nothing else, strictly increasing, each between 2 and
\* the sequence length, the sequence length among them, and no more of them
\* than nonzero bins, rounded up (MSPT.py) or down (MSPT_0525.py).
C18_CandidateRange ==
    /\ Range(patch_sizes) = {PeriodOfBin(variant, seq_len, i) : i \in 1..NumBins(seq_len)}
    /\ \A i, j \in DOMAIN patch_sizes : i < j => patch_sizes[i] < patch_sizes[j]
    /\ \A i \in DOMAIN patch_sizes : 2 <= patch_sizes[i] /\ patch_sizes[i] <= seq_len
    /\ seq_len \in Range(patch_sizes)
    /\ Len(patch_sizes) <= NumBins(seq_len)

\* C18 without the sequence length being a candidate
C18_WithinRange ==
    /\ \A i, j \in DOMAIN patch_sizes : i < j => patch_sizes[i] < patch_sizes[j]
    /\ \A i \in DOMAIN patch_sizes : 2 <= patch_sizes[i] /\ patch_sizes[i] <= seq_len
    /\ Len(patch_sizes) <= NumBins(seq_len)

----------------------------------------------------------------------------
(* Model.forward of both files, on the shapes of its tensors.  A tensor is   *)
(* its batch size bs and its time length len; the channel and feature widths *)
(* are fixed by the configuration and match throughout.  RevIN and the       *)
(* embeddings keep bs and len.                                               *)

MaxPredLen == 7

CeilDiv(a, b) == (a + b - 1) \div b

\* MSPT_0525.py: ReplicationPad1d((0, ceil(seq_len / patch_size) * patch_size - seq_len))
Padding0525(L, P) == CeilDiv(L, P) * P - L

\* x.unfold(-1, patch_size, patch_size): the number of whole patches
Unfold(len, P) == IF len < P THEN 0 ELSE (len - P) \div P + 1

\* patch_embedding and the encoder of one patch size: [n, C, num_patch, D]
PatchEmbedding0525(L, P) == [num_patch |-> Unfold(L + Padding0525(L, P), P), patch_size |-> P]

\* nn.Linear(ceil(seq_len / patch_size) * d_model, pred_len) accepts the
\* flattened [num_patch * d_model] input
LinearPredictionHeadOK(xs) ==
    \A e \in DOMAIN xs : xs[e].num_patch = CeilDiv(seq_len, xs[e].patch_size)

\* the time length 'B C L P -> B (L P) C' followed by [:, :seq_len, :] leaves
PretrainLen(x) ==
    IF x.num_patch * x.patch_size < seq_len THEN x.num_patch * x.patch_size ELSE seq_len

\* torch.cat(xs, 0) needs the same time length in every tensor
CatOK(lens) == \A i, j \in DOMAIN lens : lens[i] = lens[j]

\* elementwise product of time lengths a and b: equal, or one of them 1
BroadcastOK(a, b) == a = b \/ a = 1 \/ b = 1
Broadcast(a, b) == IF a = 1 THEN b ELSE a

\* x_enc [B, L, C] arrives; RevIN / normalisation and the embedding
ModelEmbed ==
    /\ pc = "idle"
    /\ \E B \in 1..MaxBatch : enc_out' = [bs |-> B, len |-> seq_len]
    /\ dec_out' = Unbound
    /\ pc' = "embedded"
    /\ UNCHANGED <<config, encoder, masking, training, ref, locals, pretrain, pred_len>>

\* MSPT.py 506 / 514-515: (dec_embedding of x_dec, label_len = 0, then) the
\* encoder stack, [bs, L, D]; MSPT_0525.py 360-365: msppe and the encoders, one
\* tensor per patch size.  Both raise in topk when it is asked for too many.
ModelEncode ==
    /\ pc = "embedded"
    /\ IF ~TopKOK(variant, NumExperts, k)
       THEN /\ pc' = "failed"
            /\ UNCHANGED <<enc_out, dec_out>>
       ELSE /\ pc' = "stacked"
            /\ IF variant = "MSPT"
               THEN /\ enc_out' = [bs |-> enc_out.bs, len |-> seq_len]
                    /\ dec_out' = IF pretrain THEN dec_out
                                  ELSE [bs |-> enc_out.bs, len |-> pred_len]
               ELSE /\ enc_out' = [bs |-> enc_out.bs,
                                   xs |-> [e \in 1..NumExperts |->
                                             PatchEmbedding0525(seq_len, patch_sizes[e])]]
                    /\ UNCHANGED dec_out
    /\ UNCHANGED <<config, encoder, masking, training, ref, locals, pretrain, pred_len>>

\* MSPT.py 507 (the head call of the pretrain branch is commented out) / 516
\* (LinearProbeHead); MSPT_0525.py 368 (LinearPretrainHead, LinearPredictionHead)
ModelHead ==
    /\ pc = "stacked"
    /\ IF variant = "MSPT"
       THEN IF pretrain
            THEN /\ pc' = "headed"
                 /\ UNCHANGED dec_out
            ELSE IF enc_out.len = seq_len
                 THEN /\ pc' = "headed"
                      /\ dec_out' = [bs |-> enc_out.bs, len |-> pred_len]
                 ELSE /\ pc' = "failed"
                      /\ UNCHANGED dec_out
       ELSE IF pretrain
            THEN LET lens == [e \in DOMAIN enc_out.xs |-> PretrainLen(enc_out.xs[e])]
                 IN IF CatOK(lens)
                    THEN /\ pc' = "headed"
                         /\ dec_out' = [bs |-> enc_out.bs, len |-> lens[Len(lens)]]
                    ELSE /\ pc' = "failed"
                         /\ UNCHANGED dec_out
            ELSE IF LinearPredictionHeadOK(enc_out.xs)
                 THEN /\ pc' = "headed"
                      /\ dec_out' = [bs |-> enc_out.bs, len |-> pred_len]
                 ELSE /\ pc' = "failed"
                      /\ UNCHANGED dec_out
    /\ UNCHANGED <<config, encoder, masking, training, ref, locals, pretrain, pred_len, enc_out>>

\* MSPT.py 509 / 519: self.revin(dec_out, 'inverse') reads the local dec_out;
\* MSPT_0525.py 373-374: dec_out * stdev...repeat(1, self.pred_len, 1) + means...
ModelDenormalise ==
    /\ pc = "headed"
    /\ IF variant = "MSPT"
       THEN IF dec_out = Unbound
            THEN /\ pc' = "failed"
                 /\ UNCHANGED dec_out
            ELSE /\ pc' = "denormalised"
                 /\ UNCHANGED dec_out
       ELSE IF BroadcastOK(dec_out.len, pred_len)
            THEN /\ pc' = "denormalised"
                 /\ dec_out' = [bs |-> dec_out.bs, len |-> Broadcast(dec_out.len, pred_len)]
            ELSE /\ pc' = "failed"
                 /\ UNCHANGED dec_out
    /\ UNCHANGED <<config, encoder, masking, training, ref, locals, pretrain, pred_len, enc_out>>

\* MSPT.py 511 / 521 (dec_out[:, -self.pred_len:, :]); MSPT_0525.py 376
ModelReturn ==
    /\ pc = "denormalised"
    /\ dec_out' = IF variant = "MSPT" /\ ~pretrain /\ dec_out.len > pred_len
                  THEN [bs |-> dec_out.bs, len |-> pred_len]
                  ELSE dec_out
    /\ pc' = "returned"
    /\ UNCHANGED <<config, encoder, masking, training, ref, locals, pretrain, pred_len, enc_out>>

\* the caller has the result (or the exception); the locals are gone
ModelDone ==
    /\ pc \in {"returned", "failed"}
    /\ pc' = "idle"
    /\ enc_out' = Unbound
    /\ dec_out' = Unbound
    /\ UNCHANGED <<config, encoder, masking, training, ref, locals, pretrain, pred_len>>

InitModes ==
    /\ \E v \in Variants, L \in 2..MaxSeqLen, top_k \in 1..MaxTopK : Construct(v, L, top_k)
    /\ training = FALSE
    /\ sortRank = Identity(MaxBatch)
    /\ topkRank = Identity(Len(patch_sizes))
    /\ InitLocals
    /\ pretrain \in BOOLEAN
    /\ pred_len \in 1..MaxPredLen
    /\ NoModelCall
    /\ NoEncoder
    /\ NoMasking

NextModes ==
    \/ ModelEmbed
    \/ ModelEncode
    \/ ModelHead
    \/ ModelDenormalise
    \/ ModelReturn
    \/ ModelDone

SpecModes == InitModes /\ [][NextModes]_vars

\* C13: with a K the gate accepts, a forward call on a batch of seq_len time
\* steps does not raise and returns seq_len time steps in pretraining mode and
\* pred_len time steps in prediction mode.
C13_ForwardModes ==
    TopKOK(variant, NumExperts, k)
        => /\ pc # "failed"
           /\ pc = "returned"
                 => /\ dec_out # Unbound
                    /\ dec_out.len = (IF pretrain THEN seq_len ELSE pred_len)

\* C13, prediction mode alone
C13_PredictionMode ==
    (TopKOK(variant, NumExperts, k) /\ ~pretrain)
        => /\ pc # "failed"
           /\ pc = "returned" => (dec_out # Unbound /\ dec_out.len = pred_len)


-----------------------------------------------------------------------------
(* One expert on its own: the shapes of Encoder.forward (MSPT.py) and of
   patch_embedding with the per-patch-size head width (MSPT_0525.py), for
   every pair of a sequence length and a patch size, candidate period or not.
   x_patch is the shape of x: n rows, L the length forward remembers, len the
   time length, and once patched num_patch patches of P time steps. *)

MaxPatchSize == 7

\* faulty variant of PatchPadding: pads to the next multiple, nothing when P
\* divides the length
PatchPaddingExact(len, P) == (P - (len % P)) % P

\* the right padding of patchify
PatchPadding(len, P) == P - (len % P)

\* int(self.seq_len / patch_size) + 1
NumPatchs(L, P) == L \div P + 1

\* an expert is built for one patch size; MSPT_0525.py has no positional
\* embedding over the patches of its own size, its head is sized instead
InitPatch ==
    /\ variant \in Variants
    /\ seq_len \in 1..MaxSeqLen
    /\ patch_sizes = get_patch_sizes(variant, seq_len)
    /\ k = 1
    /\ training = FALSE
    /\ sortRank = Identity(MaxBatch)
    /\ topkRank = Identity(Len(patch_sizes))
    /\ pc = "idle"
    /\ ref = NoRef
    /\ InitLocals
    /\ NoModel
    /\ NoMasking
    /\ patch_size \in 1..MaxPatchSize
    /\ num_patchs = (IF variant = "MSPT" THEN NumPatchs(seq_len, patch_size)
                     ELSE CeilDiv(seq_len, patch_size))
    /\ x_patch = Unbound

\* the sub-batch routed to the expert arrives: n rows of seq_len time steps;
\* L = x.shape[1]
EncoderForward ==
    /\ pc = "idle"
    /\ \E n \in 0..MaxBatch :
           x_patch' = [n |-> n, L |-> seq_len, len |-> seq_len]
    /\ pc' = "entered"
    /\ UNCHANGED <<config, training, ref, locals, model, masking, patch_size, num_patchs>>

\* Encoder.patchify: replicate padding on the right, then unfold
Patchify ==
    /\ pc = "entered"
    /\ variant = "MSPT"
    /\ LET padded == x_patch.len + PatchPadding(x_patch.len, patch_size)
       IN  x_patch' = [n |-> x_patch.n, L |-> x_patch.L, len |-> padded,
                       num_patch |-> Unfold(padded, patch_size), P |-> patch_size]
    /\ pc' = "patched"
    /\ UNCHANGED <<config, training, ref, locals, model, masking, patch_size, num_patchs>>

\* patch_embedding of MSPT_0525.py: the padding layer built at construction,
\* then unfold
PatchEmbedding ==
    /\ pc = "entered"
    /\ variant = "MSPT_0525"
    /\ LET padded == x_patch.len + Padding0525(seq_len, patch_size)
       IN  x_patch' = [n |-> x_patch.n, L |-> x_patch.L, len |-> padded,
                       num_patch |-> Unfold(padded, patch_size), P |-> patch_size]
    /\ pc' = "patched"
    /\ UNCHANGED <<config, training, ref, locals, model, masking, patch_size, num_patchs>>

\* the encoder layers: x + self.pos_embed broadcasts the patches of x against
\* the num_patchs rows of the embedding (MSPT.py); the head's nn.Linear takes
\* num_patchs * d_model input features (MSPT_0525.py)
EncoderLayers ==
    /\ pc = "patched"
    /\ IF variant = "MSPT"
       THEN IF BroadcastOK(x_patch.num_patch, num_patchs)
            THEN /\ x_patch' = [x_patch EXCEPT !.num_patch = Broadcast(@, num_patchs)]
                 /\ pc' = "encoded"
            ELSE /\ pc' = "failed"
                 /\ UNCHANGED x_patch
       ELSE IF x_patch.num_patch = num_patchs
            THEN /\ pc' = "returned"
                 /\ UNCHANGED x_patch
            ELSE /\ pc' = "failed"
                 /\ UNCHANGED x_patch
    /\ UNCHANGED <<config, training, ref, locals, model, masking, patch_size, num_patchs>>

\* unpacthify and [:, :L, :]
Unpatchify ==
    /\ pc = "encoded"
    /\ LET flat == x_patch.num_patch * x_patch.P
       IN  x_patch' = [n |-> x_patch.n, L |-> x_patch.L,
                       len |-> IF flat < x_patch.L THEN flat ELSE x_patch.L]
    /\ pc' = "returned"
    /\ UNCHANGED <<config, training, ref, locals, model, masking, patch_size, num_patchs>>

\* the expert is called again
EncoderDone ==
    /\ pc \in {"returned", "failed"}
    /\ pc' = "idle"
    /\ x_patch' = Unbound
    /\ UNCHANGED <<config, training, ref, locals, model, masking, patch_size, num_patchs>>

NextPatch ==
    \/ EncoderForward
    \/ Patchify
    \/ PatchEmbedding
    \/ EncoderLayers
    \/ Unpatchify
    \/ EncoderDone

SpecPatch == InitPatch /\ [][NextPatch]_vars

\* C17: the expert never raises on its seq_len-long sub-batch, empty or not;
\* patchify (MSPT.py) makes floor(L/P)+1 patches, a whole extra one when P
\* divides L, as many as the positional embedding has rows, and the expert
\* returns the rows and the L time steps it was given; patch_embedding
\* (MSPT_0525.py) pads to ceil(L/P)*P >= L and makes the ceil(L/P) patches the
\* head is sized for.
C17_ShapePreserved ==
    /\ pc # "failed"
    /\ (pc = "patched" /\ variant = "MSPT")
           => /\ x_patch.num_patch = seq_len \div patch_size + 1
              /\ x_patch.num_patch = num_patchs
              /\ x_patch.len = x_patch.num_patch * patch_size
              /\ seq_len % patch_size = 0 => x_patch.len = seq_len + patch_size
    /\ (pc = "patched" /\ variant = "MSPT_0525")
           => /\ x_patch.len = CeilDiv(seq_len, patch_size) * patch_size
              /\ x_patch.len >= seq_len
              /\ x_patch.num_patch = CeilDiv(seq_len, patch_size)
              /\ x_patch.num_patch = num_patchs
    /\ (pc = "returned" /\ variant = "MSPT")
           => /\ x_patch.len = seq_len
              /\ x_patch.n \in 0..MaxBatch

\* C17 happens: an empty sub-batch went through an expert whose patch size
\* divides the sequence length, and a non-empty one through an expert whose
\* patch size is larger than the sequence
C17_Witness ==
    /\ pc = "returned"
    /\ variant = "MSPT"
    /\ \/ x_patch.n = 0 /\ seq_len % patch_size = 0 /\ patch_size > 1
       \/ x_patch.n > 0 /\ patch_size > seq_len

-----------------------------------------------------------------------------
(* random_masking and the un-shuffle of PretrainHead.forward (MSPT.py), on
   one sample: xb is its sequence of tokens, positions count from 1.  The
   mask ratio is a multiple of 1/MaskDen with MaskDen a power of two, so
   L * (1 - mask_ratio) is exact in the doubles python computes it in. *)

MaxMaskLen == 3
MaxToken == 2
MaskBits == 2
MaskDen == Pow2(MaskBits)

\* self.mask_token, a learnt vector that is no token of the input
mask_token == -1

\* int(L * (1 - mask_ratio)) for mask_ratio = r / MaskDen
LenKeep(L, r) == (L * (MaskDen - r)) \div MaskDen

\* torch.argsort(t, dim=1): the orders that sort t ascending; equal elements
\* come in any order
Argsort(t) ==
    {p \in Permutations1(Len(t)) :
        \A i, j \in 1..Len(t) : i < j => t[p[i]] <= t[p[j]]}

\* faulty variant of GatherDim1: the sequence is left in shuffled order
GatherDim1Not(t, index) == t

\* torch.gather(t, dim=1, index)
GatherDim1(t, index) == [j \in DOMAIN index |-> t[index[j]]]

\* n copies of v
Repeat(v, n) == [i \in 1..n |-> v]

InitMask ==
    /\ variant = "MSPT"
    /\ seq_len \in 1..MaxMaskLen
    /\ patch_sizes = get_patch_sizes(variant, seq_len)
    /\ k = 1
    /\ training = FALSE
    /\ sortRank = Identity(MaxBatch)
    /\ topkRank = Identity(Len(patch_sizes))
    /\ pc = "idle"
    /\ ref = NoRef
    /\ InitLocals
    /\ NoModel
    /\ NoEncoder
    /\ xb \in [1..seq_len -> 0..MaxToken]
    /\ mask_ratio \in 0..MaskDen
    /\ masked = Unbound
    /\ x_ = <<>>

\* random_masking(xb, mask_ratio)
RandomMasking ==
    /\ pc = "idle"
    /\ \E noise \in [1..Len(xb) -> 0..MaxNoise] :
       \E ids_shuffle \in Argsort(noise) :
       \E ids_restore \in Argsort(ids_shuffle) :
          LET L == Len(xb)
              len_keep == LenKeep(L, mask_ratio)
              ids_keep == SubSeq(ids_shuffle, 1, len_keep)
              x_kept == GatherDim1(xb, ids_keep)
              x_removed == Repeat(0, L - len_keep)
              ones == Repeat(1, L)
          IN  masked' = [x_masked |-> GatherDim1(x_kept \o x_removed, ids_restore),
                         x_kept |-> x_kept,
                         mask |-> GatherDim1([j \in 1..L |-> IF j <= len_keep THEN 0 ELSE ones[j]],
                                             ids_restore),
                         ids_restore |-> ids_restore,
                         ids_shuffle |-> ids_shuffle]
    /\ pc' = "masked"
    /\ UNCHANGED <<config, training, ref, locals, model, encoder, xb, mask_ratio, x_>>

\* PretrainHead.forward(x, ids_restore) up to the gather, on x = x_kept
PretrainHeadForward ==
    /\ pc = "masked"
    /\ LET x == masked.x_kept
           mask_tokens == Repeat(mask_token, Len(masked.ids_restore) - Len(x))
       IN  x_' = GatherDim1(x \o mask_tokens, masked.ids_restore)
    /\ pc' = "restored"
    /\ UNCHANGED <<config, training, ref, locals, model, encoder, xb, mask_ratio, masked>>

\* the next batch is another sample
MaskDone ==
    /\ pc = "restored"
    /\ pc' = "idle"
    /\ masked' = Unbound
    /\ x_' = <<>>
    /\ UNCHANGED <<config, training, ref, locals, model, encoder, xb, mask_ratio>>

NextMask ==
    \/ RandomMasking
    \/ PretrainHeadForward
    \/ MaskDone

SpecMask == InitMask /\ [][NextMask]_vars

\* the positions random_masking kept
KeptPositions == {j \in DOMAIN masked.mask : masked.mask[j] = 0}

\* C19: random_masking keeps int(L * (1 - mask_ratio)) positions, ids_restore
\* is the inverse of the shuffle, mask is 0 at the kept and 1 at the removed
\* positions, x_masked is the input at the kept positions and zero at the
\* removed ones; PretrainHead's un-shuffle puts every kept token back at its
\* position and a mask token exactly where mask is 1.
C19_MaskingRoundTrip ==
    pc \in {"masked", "restored"}
        => LET L == Len(xb)
               len_keep == LenKeep(L, mask_ratio)
           IN  /\ Len(masked.x_kept) = len_keep
               /\ Cardinality(KeptPositions) = len_keep
               /\ masked.ids_restore \in Permutations1(L)
               /\ \A i \in 1..L : /\ masked.ids_restore[masked.ids_shuffle[i]] = i
                                  /\ masked.ids_shuffle[masked.ids_restore[i]] = i
               /\ KeptPositions = {masked.ids_shuffle[i] : i \in 1..len_keep}
               /\ \A i \in 1..len_keep : masked.x_kept[i] = xb[masked.ids_shuffle[i]]
               /\ \A j \in 1..L :
                      /\ masked.mask[j] \in {0, 1}
                      /\ masked.x_masked[j] = (IF j \in KeptPositions THEN xb[j] ELSE 0)
               /\ pc = "restored"
                      => /\ Len(x_) = L
                         /\ \A j \in 1..L :
                                x_[j] = (IF masked.mask[j] = 1 THEN mask_token ELSE xb[j])

\* C19 happens: of three different tokens the middle one alone was kept and
\* the sequence was restored around it
C19_Witness ==
    /\ pc = "restored"
    /\ xb = <<1, 2, 0>>
    /\ masked.mask = <<1, 0, 1>>
    /\ masked.ids_shuffle = <<2, 3, 1>>
    /\ x_ = <<mask_token, 2, mask_token>>

----------------------------------------------------------------------------
(* Two calls that share samples.  A second call is given a batch made of     *)
(* samples of the current one: fewer of them, or the same in another order.  *)
(* Its spectrum rows and the value each expert returns for a sample are      *)
(* those of the current call (rfft runs along the time axis of each sample,  *)
(* the experts are per-sample functions); everything else is computed again  *)
(* as forward computes it.  Two batches that share a sample and differ in    *)
(* everything else are each compared with the batch of that sample alone.    *)

\* the forward pass in inference mode (self.training is False)
InitInference == InitForward /\ training = FALSE

SpecInference == InitInference /\ [][NextForward]_vars

\* the batches of the second call: samples[j] is the position sample j of the
\* second call has in the current one
SubBatches ==
    UNION {{s \in [1..n -> DOMAIN inp] : \A i, j \in 1..n : s[i] = s[j] => i = j} :
              n \in 1..Len(inp)}

\* what expert e returned for sample b in the current call
ExpertOn(e, b) ==
    LET j == CHOOSE i \in DOMAIN encoders_output[e] : encoders_output[e][i].src = b
    IN encoders_output[e][j].val

\* the per-sample scores the gate of the second call reads
RerunScores(samples, pl) ==
    IF variant = "MSPT"
    THEN groups_by_period(pl, [j \in DOMAIN samples |-> amplitude_list[samples[j]]]).groups_amplitude
    ELSE [j \in DOMAIN samples |-> scores[samples[j]]]

\* the second call, stage by stage as forward runs: its gates in inference
\* mode, the dispatcher, the sub-batches, the experts and the combined output;
\* every sample has the gate row and the output row it has in the current
\* call.  pl is the period list, rank the order the sort of the second call
\* leaves ties in.
SecondCallAgrees(samples, pl, rank) ==
    \A s \in {RerunScores(samples, pl)} :
    \A g2 \in {GateOf(variant, Logits(s, s, FALSE), k, topkRank)} :
       /\ \A j \in DOMAIN samples : g2[j] = gates[samples[j]]
       /\ \A x2 \in {[j \in DOMAIN samples |-> [src |-> j, val |-> inp[samples[j]].val]]} :
          \A d \in {SparseDispatcher(NumExperts, g2, rank)} :
          \A ix \in {IF variant = "MSPT" THEN d ELSE AggregatorIndex(g2, rank)} :
          \A ins \in {Split(Gather(x2, d.batch_index), d.part_sizes)} :
          \A outs \in {[e \in DOMAIN ins |->
                          [i \in DOMAIN ins[e] |->
                              [src |-> ins[e][i].src,
                               val |-> ExpertOn(e, samples[ins[e][i].src])]]]} :
          \A output2 \in {CombineRows(g2, ix.batch_index, ix.nonzero_gates, outs)} :
             \A j \in DOMAIN samples : output2[j] = output[samples[j]]

\* C20: in inference mode a second call on any batch made of samples of this
\* one, fewer or in another order, whatever order its sort leaves ties in,
\* gives each sample the gate row and the output row it has in this call.
C20_BatchIndependence ==
    (pc = "combined" /\ ~training)
        => \A pl \in {peroid_list(seq_len)} :
           \A samples \in SubBatches, rank \in Permutations1(MaxBatch) :
              SecondCallAgrees(samples, pl, rank)

\* C20 happens: two samples with different routes that share an expert and
\* have different outputs, and the batch in reverse order gives the outputs
\* in reverse order
C20_Witness ==
    /\ pc = "combined"
    /\ ~training
    /\ Len(gates) = 2
    /\ Routed(1) # Routed(2)
    /\ Routed(1) \cap Routed(2) # {}
    /\ output[1] # output[2]
    /\ sortRank # Identity(MaxBatch)
    /\ SecondCallAgrees(<<2, 1>>, peroid_list(seq_len), sortRank)

=============================================================================
